---- MODULE Spec2Model ----
(***************************************************************************)
(* A model of the APDU codec of nvx/go-apdu (ISO 7816-4 command and        *)
(* response framing).  The codec is a set of pure functions; they are      *)
(* modelled as operators over byte sequences (bytes are 0..255, a Go       *)
(* slice c[lo:hi] is SubSeq(c, lo+1, hi)).  The state machine is a caller  *)
(* that either builds a Capdu and serialises it, or receives a buffer,     *)
(* and then parses the buffer; it does the same with a Rapdu, and asks     *)
(* for the classification of a Rapdu's status word.  A string is the       *)
(* sequence of its bytes (character codes).                                *)
(***************************************************************************)
EXTENDS Integers, Sequences, FiniteSets, TLC

VARIABLES u, c, origin, enc, dec, pc, r, rdec, cls, ext, str

vars == <<u, c, origin, enc, dec, pc, r, rdec, cls, ext, str>>

(***************************************************************************)
(* Program constants (capdu.go const block, rapdu.go const block).         *)
(***************************************************************************)
OffsetCLA == 0
OffsetINS == 1
OffsetP1 == 2
OffsetP2 == 3
OffsetLcStandard == 4
OffsetLcExtended == 5
OffsetCdataStandard == 5
OffsetCdataExtended == 7
MaxLenCommandDataStandard == 255
MaxLenCommandDataExtended == 65535
LenHeader == 4
LenLcStandard == 1
LenLeStandard == 1
LenLcExtended == 3
LenLeExtended == 2
MaxLenResponseDataStandard == 256
MaxLenResponseDataExtended == 65536
\* the literal upper limit of ParseCapdu's length check
MaxLenCapdu == 65544
\* a byte has 8 bits: conversions byte(x) and x & 0xFF keep x modulo 256
ByteRange == 256

(***************************************************************************)
(* Bounds of the model.                                                    *)
(***************************************************************************)
\* every body (the bytes after the header) of at most this length, over
\* ByteSamples, is a received buffer
MaxBody == 6
\* every Data of at most this length, over ByteSamples, is a built Capdu
MaxSmallData == 2
\* the caller writes to buffers of at most this length
MaxWritten == 8
\* lengths and Ne values within this distance of each threshold are inputs
Margin == 1

(***************************************************************************)
(* Go primitives.                                                          *)
(***************************************************************************)
\* c[i] of a Go slice (0-based)
At(b, i) == b[i + 1]

\* c[lo:hi] of a Go slice (0-based, hi exclusive)
Slice(b, lo, hi) == SubSeq(b, lo + 1, hi)

\* byte(x), (byte)(x & 0xFF): the low 8 bits
ToByte(x) == x % ByteRange

\* (byte)((x >> 8) & 0xFF): bits 8..15 (>> is an arithmetic shift)
HighByte(x) == (x \div ByteRange) % ByteRange

\* binary.BigEndian.Uint16(b): the first two bytes of b, big endian
BigEndianUint16(b) == b[1] * ByteRange + b[2]

\* fmt.Errorf(format, args...): the error value; NilErr is Go's nil error
Errorf(format, args) == [nil |-> FALSE, format |-> format, args |-> args]

NilErr == [nil |-> TRUE, format |-> "", args |-> <<>>]

\* a faulty FromHexChar: the digits a..f are not accepted
FromHexCharUpperOnly(ch) ==
    IF ch \in 48..57 THEN ch - 48
    ELSE IF ch \in 65..70 THEN ch - 55
    ELSE 255

\* encoding/hex: the value of the hex digit ch ('0'..'9', 'A'..'F',
\* 'a'..'f'), 255 for every other byte
FromHexChar(ch) ==
    IF ch \in 48..57 THEN ch - 48
    ELSE IF ch \in 65..70 THEN ch - 55
    ELSE IF ch \in 97..102 THEN ch - 87
    ELSE 255

\* []byte(t), and the elements of a function over 1..n as a slice: the same
\* values, held as a tuple
BytesOf(t) == SubSeq(t, 1, Len(t))

\* hex.DecodeString(t) of a string of even length: the bytes, or the error
\* hex.InvalidByteError of the first byte of t that is no hex digit
DecodeString(t) ==
    LET src == BytesOf(t)
        bad == {i \in 1..Len(src) : FromHexChar(src[i]) > 15}
        first == CHOOSE i \in bad : \A j \in bad : i <= j
    IN  IF bad # {}
        THEN [b |-> <<>>, err |-> Errorf("encoding/hex: invalid byte: %#U", <<src[first]>>)]
        ELSE [b |-> BytesOf([i \in 1..(Len(src) \div 2) |->
                                FromHexChar(src[2 * i - 1]) * 16 + FromHexChar(src[2 * i])]),
              err |-> NilErr]

\* the hex digit of the value n < 16, in lower case as hex.EncodeToString
\* writes it
HexDigit(n) == IF n < 10 THEN 48 + n ELSE 87 + n

\* hex.EncodeToString(b)
EncodeToString(b) ==
    LET src == BytesOf(b)
    IN  BytesOf([i \in 1..(2 * Len(src)) |->
                    IF i % 2 = 1 THEN HexDigit(src[(i + 1) \div 2] \div 16)
                    ELSE HexDigit(src[i \div 2] % 16)])

\* strings.ToUpper(t) of a string of ASCII bytes
ToUpper(t) ==
    LET src == BytesOf(t)
    IN  BytesOf([i \in 1..Len(src) |-> IF src[i] \in 97..122 THEN src[i] - 32 ELSE src[i]])

(***************************************************************************)
(* type Capdu struct                                                       *)
(***************************************************************************)
Capdu(cla, ins, p1, p2, data, ne) ==
    [CLA |-> cla, INS |-> ins, P1 |-> p1, P2 |-> p2, Data |-> data, Ne |-> ne]

\* Capdu{}: the zero value returned beside an error
ZeroCapdu == Capdu(0, 0, 0, 0, <<>>, 0)

\* the return values of ParseCapdu
ParseOk(v) == [capdu |-> v, err |-> NilErr]

ParseErr(e) == [capdu |-> ZeroCapdu, err |-> e]

\* the call did not return: an index or a slice bound was outside the slice
\* and the Go runtime panicked
ParsePanic ==
    [capdu |-> ZeroCapdu,
     err |-> [nil |-> FALSE, format |-> "panic: runtime error: index out of range", args |-> <<>>]]

\* the bytes lo..hi-1 that a slice expression c[lo:hi] or a read of that many
\* bytes touches
Access(lo, hi) == [lo |-> lo, hi |-> hi]

\* the index expression c[i]
Index(i) == Access(i, i + 1)

\* the bounds check of the Go runtime for an access to b
InBounds(b, a) == 0 <= a.lo /\ a.lo <= a.hi /\ a.hi <= Len(b)

\* Capdu{CLA: c[OffsetCLA], INS: c[OffsetINS], P1: c[OffsetP1], P2: c[OffsetP2], Data: data, Ne: ne}
FromHeader(b, data, ne) ==
    Capdu(At(b, OffsetCLA), At(b, OffsetINS), At(b, OffsetP1), At(b, OffsetP2), data, ne)

(***************************************************************************)
(* func ParseCapdu(c []byte) (Capdu, error)                                *)
(***************************************************************************)
\* a faulty InvalidLength: the limits are excluded
InvalidLengthExclusive(b) == Len(b) <= LenHeader \/ Len(b) >= MaxLenCapdu

\* the length check that opens ParseCapdu
InvalidLength(b) == Len(b) < LenHeader \/ Len(b) > MaxLenCapdu

ErrInvalidLength(b) ==
    Errorf("%s: invalid length - Capdu must consist of at least 4 byte and maximum of 65544 byte, got %d",
           <<"apdu", Len(b)>>)

\* CASE 1 command: only HEADER
ParseCase1(b) == ParseOk(FromHeader(b, <<>>, 0))

\* the Le byte of a standard command: 0 stands for 256
NeStandard(le) == IF le = 0 THEN MaxLenResponseDataStandard ELSE le

\* a faulty NeExtended: 0 is taken as it is
NeExtendedPlain(le) == le

\* the two Le bytes of an extended command: 0 stands for 65536
NeExtended(le) == IF le = 0 THEN MaxLenResponseDataExtended ELSE le

\* a faulty ParseCase2Standard: the Le byte is taken as it is
ParseCase2StandardPlain(b) ==
    ParseOk(FromHeader(b, <<>>, At(b, OffsetLcStandard)))

\* a faulty ParseCase2Standard: Le = 0 stands for the maximum of the extended form
ParseCase2StandardExtendedMax(b) ==
    LET ne == At(b, OffsetLcStandard)
    IN  ParseOk(FromHeader(b, <<>>, NeExtended(ne)))

\* STANDARD CASE 2 command: HEADER | Le (no Lc is present)
ParseCase2Standard(b) ==
    LET ne == At(b, OffsetLcStandard)
    IN  ParseOk(FromHeader(b, <<>>, NeStandard(ne)))

\* a faulty ParseCase2Extended: Le is read from the offset of the 00 byte
ParseCase2ExtendedShifted(b) ==
    LET le == BigEndianUint16(Slice(b, OffsetLcStandard, Len(b)))
    IN  ParseOk(FromHeader(b, <<>>, NeExtended(le)))

\* EXTENDED CASE 2 command: HEADER | 00 | Le (two bytes)
ParseCase2Extended(b) ==
    LET le == BigEndianUint16(Slice(b, OffsetLcExtended, Len(b)))
    IN  ParseOk(FromHeader(b, <<>>, NeExtended(le)))

\* a faulty ParseHID: every Le byte is accepted
ParseHIDAnyLe(b) == ParseOk(FromHeader(b, <<>>, NeStandard(At(b, 5))))

\* the request of the broken HID reader: HEADER | 00 | Le (one byte)
ParseHID(b) ==
    LET le == At(b, 5)
    IN  IF le # 0
        THEN ParseErr(Errorf("%s: invalid Le value %d in HID hack handler", <<"apdu", le>>))
        ELSE ParseOk(FromHeader(b, <<>>, 256))

\* a faulty LcExtendedInvalid: room for a one byte Le
LcExtendedInvalidShortLe(lc, bodyLen) ==
    lc # bodyLen - LenLcExtended /\ lc # bodyLen - LenLcExtended - LenLeStandard

\* the Lc of an extended command must leave room for nothing or for a two byte Le
LcExtendedInvalid(lc, bodyLen) ==
    lc # bodyLen - LenLcExtended /\ lc # bodyLen - LenLcExtended - LenLeExtended

\* EXTENDED CASE 3 and 4 commands: HEADER | 00 Lc Lc | DATA [| Le Le]
ParseLcExtended(b) ==
    LET bodyLen == Len(b) - LenHeader
        lc == BigEndianUint16(Slice(b, OffsetLcExtended, Len(b)))
        data == Slice(b, OffsetCdataExtended, OffsetCdataExtended + lc)
        le == BigEndianUint16(Slice(b, Len(b) - 2, Len(b)))
    IN  IF LcExtendedInvalid(lc, bodyLen)
        THEN ParseErr(Errorf("%s: invalid Lc value - Lc indicates data length %d", <<"apdu", lc>>))
        ELSE IF Len(b) = LenHeader + LenLcExtended + Len(data)
        THEN ParseOk(FromHeader(b, data, 0))
        ELSE ParseOk(FromHeader(b, data, NeExtended(le)))

\* extended APDUs, indicated by the 00 byte after the header
ParseExtended(b) ==
    IF Len(b) = LenHeader + 1 + LenLeExtended THEN ParseCase2Extended(b)
    ELSE IF Len(b) = LenHeader + 2 THEN ParseHID(b)
    ELSE ParseLcExtended(b)

\* a faulty LcStandardInvalid: an Lc that is too small passes
LcStandardInvalidLax(lc, bodyLen) == lc > bodyLen - LenLcStandard

\* a faulty LcStandardInvalid: the Lc byte itself is not subtracted
LcStandardInvalidNoLcByte(lc, bodyLen) ==
    lc # bodyLen /\ lc # bodyLen - LenLcStandard

\* the Lc of a standard command must leave room for nothing or for a one byte Le
LcStandardInvalid(lc, bodyLen) ==
    lc # bodyLen - LenLcStandard /\ lc # bodyLen - LenLcStandard - 1

\* STANDARD CASE 3 and 4 commands: HEADER | Lc | DATA [| Le]
ParseLcStandard(b) ==
    LET bodyLen == Len(b) - LenHeader
        lc == At(b, OffsetLcStandard)
        data == Slice(b, OffsetCdataStandard, OffsetCdataStandard + lc)
        le == At(b, Len(b) - 1)
    IN  IF LcStandardInvalid(lc, bodyLen)
        THEN ParseErr(Errorf("%s: invalid Lc value - Lc indicates length %d", <<"apdu", lc>>))
        ELSE IF Len(b) = LenHeader + LenLcStandard + Len(data)
        THEN ParseOk(FromHeader(b, data, 0))
        ELSE ParseOk(FromHeader(b, data, NeStandard(le)))

\* c[OffsetCLA], c[OffsetINS], c[OffsetP1], c[OffsetP2]
HeaderAccesses == {Index(OffsetCLA), Index(OffsetINS), Index(OffsetP1), Index(OffsetP2)}

\* the accesses of the extended branch, in the order of the code; an access
\* is followed only if it was within the slice
ExtendedAccesses(b) ==
    LET leOnly == Access(OffsetLcExtended, OffsetLcExtended + LenLeExtended)
        lcField == Access(OffsetLcExtended, OffsetLcExtended + 2)
    IN  IF Len(b) = LenHeader + 1 + LenLeExtended THEN {leOnly} \cup HeaderAccesses
        ELSE IF Len(b) = LenHeader + 2 THEN {Index(5)} \cup HeaderAccesses
        ELSE IF ~InBounds(b, lcField) THEN {lcField}
        ELSE LET bodyLen == Len(b) - LenHeader
                 lc == BigEndianUint16(Slice(b, OffsetLcExtended, Len(b)))
                 data == Access(OffsetCdataExtended, OffsetCdataExtended + lc)
                 le == Access(Len(b) - 2, Len(b))
             IN  IF LcExtendedInvalid(lc, bodyLen) THEN {lcField}
                 ELSE IF ~InBounds(b, data) THEN {lcField, data}
                 ELSE IF Len(b) = LenHeader + LenLcExtended + lc
                 THEN {lcField, data} \cup HeaderAccesses
                 ELSE {lcField, data, le} \cup HeaderAccesses

\* the accesses of the standard Case 3 / Case 4 branch
StandardAccesses(b) ==
    LET bodyLen == Len(b) - LenHeader
        lc == At(b, OffsetLcStandard)
        data == Access(OffsetCdataStandard, OffsetCdataStandard + lc)
    IN  IF LcStandardInvalid(lc, bodyLen) THEN {}
        ELSE IF ~InBounds(b, data) THEN {data}
        ELSE IF Len(b) = LenHeader + LenLcStandard + lc
        THEN {data} \cup HeaderAccesses
        ELSE {data, Index(Len(b) - 1)} \cup HeaderAccesses

\* every index and slice expression ParseCapdu evaluates on the input b
ParseCapduAccesses(b) ==
    IF InvalidLength(b) THEN {}
    ELSE IF Len(b) = LenHeader THEN HeaderAccesses
    ELSE IF Len(b) = LenHeader + LenLeStandard
    THEN {Index(OffsetLcStandard)} \cup HeaderAccesses
    ELSE IF ~InBounds(b, Index(OffsetLcStandard)) THEN {Index(OffsetLcStandard)}
    ELSE {Index(OffsetLcStandard)} \cup
         (IF At(b, OffsetLcStandard) = 0 THEN ExtendedAccesses(b) ELSE StandardAccesses(b))

ParseCapdu(b) ==
    IF InvalidLength(b) THEN ParseErr(ErrInvalidLength(b))
    ELSE IF \E a \in ParseCapduAccesses(b) : ~InBounds(b, a) THEN ParsePanic
    ELSE IF Len(b) = LenHeader THEN ParseCase1(b)
    ELSE IF Len(b) = LenHeader + LenLeStandard THEN ParseCase2Standard(b)
    ELSE IF At(b, OffsetLcStandard) = 0 THEN ParseExtended(b)
    ELSE ParseLcStandard(b)

\* c[lo:hi], the part of the input that the Data of the returned unit is a
\* slice of (a Go slice expression shares the storage of its operand); a
\* nil Data is a slice of nothing
NoSlice == [lo |-> 0, hi |-> 0]

\* data := c[OffsetCdataExtended : OffsetCdataExtended+lc]
DataSliceExtended(b) ==
    LET lc == BigEndianUint16(Slice(b, OffsetLcExtended, Len(b)))
    IN  [lo |-> OffsetCdataExtended, hi |-> OffsetCdataExtended + lc]

\* data := c[OffsetCdataStandard : OffsetCdataStandard+lc]
DataSliceStandard(b) ==
    LET lc == At(b, OffsetLcStandard)
    IN  [lo |-> OffsetCdataStandard, hi |-> OffsetCdataStandard + lc]

\* the slice of b that ParseCapdu(b) returns as Data: Cases 1 and 2, the HID
\* request and the errors return a nil Data
ParseCapduDataSlice(b) ==
    IF ~ParseCapdu(b).err.nil THEN NoSlice
    ELSE IF Len(b) <= LenHeader + LenLeStandard THEN NoSlice
    ELSE IF At(b, OffsetLcStandard) = 0
    THEN IF Len(b) = LenHeader + 1 + LenLeExtended \/ Len(b) = LenHeader + 2
         THEN NoSlice
         ELSE DataSliceExtended(b)
    ELSE DataSliceStandard(b)

\* the shortest hex string ParseCapduHexString accepts
MinLenCapduHex == 8

\* the length check of ParseCapduHexString
CapduHexInvalidLength(t) == Len(t) < MinLenCapduHex \/ Len(t) > MaxLenCapdu * 2

\* func ParseCapduHexString(s string) (Capdu, error)
ParseCapduHexString(t) ==
    IF Len(t) % 2 # 0
    THEN ParseErr(Errorf("%s: uneven number of hex characters", <<"apdu">>))
    ELSE IF CapduHexInvalidLength(t)
    THEN ParseErr(Errorf("%s: invalid length of hex string - a Capdu must consist of at least 4 byte and maximum of 65544 byte, got %d",
                         <<"apdu", Len(t) \div 2>>))
    ELSE LET d == DecodeString(t)
         IN  IF ~d.err.nil
             THEN ParseErr(Errorf("%w: %s: hex conversion error", <<d.err, "apdu">>))
             ELSE ParseCapdu(d.b)

(***************************************************************************)
(* func (c Capdu) Bytes() ([]byte, error)                                  *)
(* func (c Capdu) BytesExtended() ([]byte, error)                          *)
(* A returned slice is [nil, b]: nil tells Go's nil slice from an empty    *)
(* one.                                                                    *)
(***************************************************************************)
BytesOk(b) == [nil |-> FALSE, b |-> b, err |-> NilErr]

BytesErr(e) == [nil |-> TRUE, b |-> <<>>, err |-> e]

\* the first range check of Bytes and of BytesExtended
DataTooLong(v) == Len(v.Data) > MaxLenCommandDataExtended

ErrDataTooLong(v) ==
    Errorf("%s: len of Capdu.Data %d exceeds maximum allowed length of %d",
           <<"apdu", Len(v.Data), MaxLenCommandDataExtended>>)

\* a faulty NeTooLarge: the limit of the standard form
NeTooLargeStandard(v) == v.Ne > MaxLenResponseDataStandard

\* the second range check of Bytes and of BytesExtended
NeTooLarge(v) == v.Ne > MaxLenResponseDataExtended

\* the error of the second range check (its %d is given len(c.Data))
ErrNeTooLarge(v) ==
    Errorf("%s: ne %d exceeds maximum allowed length of %d",
           <<"apdu", Len(v.Data), MaxLenResponseDataExtended>>)

\* []byte{c.CLA, c.INS, c.P1, c.P2}
HeaderBytes(v) == <<v.CLA, v.INS, v.P1, v.P2>>

\* a faulty TwoBytes: the low byte first
TwoBytesLittleEndian(x) == <<ToByte(x), HighByte(x)>>

\* the two bytes BytesExtended appends for a length x
TwoBytes(x) == <<HighByte(x), ToByte(x)>>

\* a faulty BytesExtended: the Lc field is written for empty Data too
BytesExtendedAlwaysLc(v) ==
    LET dataLen == Len(v.Data)
        le == IF v.Ne > 0 \/ dataLen = 0 THEN TwoBytes(v.Ne) ELSE <<>>
    IN  IF DataTooLong(v) THEN BytesErr(ErrDataTooLong(v))
        ELSE IF NeTooLarge(v) THEN BytesErr(ErrNeTooLarge(v))
        ELSE BytesOk(HeaderBytes(v) \o <<0>> \o TwoBytes(dataLen) \o v.Data \o le)

\* a faulty BytesExtended: no Le field when Ne = 0, whatever the Data
BytesExtendedOmitLe(v) ==
    LET dataLen == Len(v.Data)
        lcData == IF dataLen > 0 THEN TwoBytes(dataLen) \o v.Data ELSE <<>>
        le == IF v.Ne > 0 THEN TwoBytes(v.Ne) ELSE <<>>
    IN  IF DataTooLong(v) THEN BytesErr(ErrDataTooLong(v))
        ELSE IF NeTooLarge(v) THEN BytesErr(ErrNeTooLarge(v))
        ELSE BytesOk(HeaderBytes(v) \o <<0>> \o lcData \o le)

BytesExtended(v) ==
    LET dataLen == Len(v.Data)
        lcData == IF dataLen > 0 THEN TwoBytes(dataLen) \o v.Data ELSE <<>>
        le == IF v.Ne > 0 \/ dataLen = 0 THEN TwoBytes(v.Ne) ELSE <<>>
    IN  IF DataTooLong(v) THEN BytesErr(ErrDataTooLong(v))
        ELSE IF NeTooLarge(v) THEN BytesErr(ErrNeTooLarge(v))
        ELSE BytesOk(HeaderBytes(v) \o <<0>> \o lcData \o le)

\* a faulty NeedsExtended: Ne is not looked at
NeedsExtendedDataOnly(v) == Len(v.Data) > MaxLenCommandDataStandard

\* a faulty NeedsExtended: the limits are included
NeedsExtendedInclusive(v) ==
    Len(v.Data) >= MaxLenCommandDataStandard \/ v.Ne >= MaxLenResponseDataStandard

\* the test of Bytes that hands the Capdu to BytesExtended
NeedsExtended(v) ==
    Len(v.Data) > MaxLenCommandDataStandard \/ v.Ne > MaxLenResponseDataStandard

\* the standard forms of Bytes: the switch and the code after it
BytesStandard(v) ==
    LET dataLen == Len(v.Data)
    IN  IF dataLen = 0 /\ v.Ne = 0
        THEN BytesOk(HeaderBytes(v))
        ELSE IF dataLen = 0 /\ v.Ne > 0
        THEN BytesOk(HeaderBytes(v) \o <<ToByte(v.Ne)>>)
        ELSE IF dataLen # 0 /\ v.Ne = 0
        THEN BytesOk(HeaderBytes(v) \o <<ToByte(dataLen)>> \o v.Data)
        ELSE BytesOk(HeaderBytes(v) \o <<ToByte(dataLen)>> \o v.Data \o <<ToByte(v.Ne)>>)

Bytes(v) ==
    IF DataTooLong(v) THEN BytesErr(ErrDataTooLong(v))
    ELSE IF NeTooLarge(v) THEN BytesErr(ErrNeTooLarge(v))
    ELSE IF NeedsExtended(v) THEN BytesExtended(v)
    ELSE BytesStandard(v)

\* a faulty IsExtendedLength: the limits of the extended form are used
IsExtendedLengthPastExtended(v) ==
    v.Ne > MaxLenResponseDataExtended \/ Len(v.Data) > MaxLenCommandDataExtended

\* func (c Capdu) IsExtendedLength() bool
IsExtendedLength(v) ==
    v.Ne > MaxLenResponseDataStandard \/ Len(v.Data) > MaxLenCommandDataStandard

(***************************************************************************)
(* The Response APDU.                                                      *)
(***************************************************************************)
LenResponseTrailer == 2

\* the longest buffer ParseRapdu accepts
MaxLenRapdu == 65538

\* type Rapdu struct
Rapdu(data, sw1, sw2) == [Data |-> data, SW1 |-> sw1, SW2 |-> sw2]

\* Rapdu{}
ZeroRapdu == Rapdu(<<>>, 0, 0)

\* func (r Rapdu) SW() uint16
SW(v) == v.SW1 * ByteRange + v.SW2

RapduOk(v) == [rapdu |-> v, err |-> NilErr]

RapduErr(e) == [rapdu |-> ZeroRapdu, err |-> e]

\* a faulty length check: a buffer of the trailer alone is refused
RapduInvalidLengthExclusive(b) == Len(b) <= LenResponseTrailer \/ Len(b) > MaxLenRapdu

\* the length check of ParseRapdu
RapduInvalidLength(b) == Len(b) < LenResponseTrailer \/ Len(b) > MaxLenRapdu

ErrRapduInvalidLength(b) ==
    Errorf("%s: invalid length - a RAPDU must consist of at least 2 byte and maximum of 65538 byte, got %d",
           <<"packageTag", Len(b)>>)

\* ParseRapdu of a buffer that is the trailer alone
ParseRapduTrailer(b) == RapduOk(Rapdu(<<>>, At(b, 0), At(b, 1)))

\* a faulty ParseRapdu: the status bytes are taken in the wrong order
ParseRapduSwapped(b) ==
    RapduOk(Rapdu(Slice(b, 0, Len(b) - LenResponseTrailer), At(b, Len(b) - 1), At(b, Len(b) - 2)))

\* ParseRapdu of a buffer with data before the trailer
ParseRapduData(b) ==
    RapduOk(Rapdu(Slice(b, 0, Len(b) - LenResponseTrailer), At(b, Len(b) - 2), At(b, Len(b) - 1)))

\* func ParseRapdu(b []byte) (_ Rapdu, err error)
ParseRapdu(b) ==
    IF RapduInvalidLength(b) THEN RapduErr(ErrRapduInvalidLength(b))
    ELSE IF Len(b) = LenResponseTrailer THEN ParseRapduTrailer(b)
    ELSE ParseRapduData(b)

\* the slice of b that ParseRapdu(b) returns as Data: b[:len(b)-LenResponseTrailer]
ParseRapduDataSlice(b) ==
    IF RapduInvalidLength(b) \/ Len(b) = LenResponseTrailer THEN NoSlice
    ELSE [lo |-> 0, hi |-> Len(b) - LenResponseTrailer]

\* the limits of the hex string ParseRapduHexString accepts
MinLenRapduHex == 4

MaxLenRapduHex == 131076

\* the length check of ParseRapduHexString
RapduHexInvalidLength(t) == Len(t) < MinLenRapduHex \/ Len(t) > MaxLenRapduHex

\* func ParseRapduHexString(s string) (Rapdu, error)
ParseRapduHexString(t) ==
    IF Len(t) % 2 # 0
    THEN RapduErr(Errorf("%s: uneven number of hex characters", <<"apdu">>))
    ELSE IF RapduHexInvalidLength(t)
    THEN RapduErr(Errorf("%s: invalid length of hex string - a RAPDU must consist of at least 2 byte and maximum of 65538 byte, got %d",
                         <<"apdu", Len(t) \div 2>>))
    ELSE LET d == DecodeString(t)
         IN  IF ~d.err.nil
             THEN RapduErr(Errorf("%w: %s: hex conversion error", <<d.err, "apdu">>))
             ELSE ParseRapdu(d.b)

RapduDataTooLong(v) == Len(v.Data) > MaxLenResponseDataExtended

ErrRapduDataTooLong(v) ==
    Errorf("%s: len of Rapdu.Data %d exceeds maximum allowed length of %d",
           <<"packageTag", Len(v.Data), MaxLenResponseDataExtended>>)

\* a faulty trailer: SW2 before SW1
RapduTrailerSwapped(v) == <<v.SW2, v.SW1>>

\* the two bytes appended after the data
RapduTrailer(v) == <<v.SW1, v.SW2>>

\* func (r Rapdu) Bytes() ([]byte, error)
RapduBytes(v) ==
    IF RapduDataTooLong(v) THEN BytesErr(ErrRapduDataTooLong(v))
    ELSE BytesOk(v.Data \o RapduTrailer(v))

\* a faulty IsSuccess: the status word 0x9000 is tested on SW1 alone
IsSuccessAnySW2(v) == v.SW1 = 97 \/ v.SW1 = 144

\* func (r Rapdu) IsSuccess() bool: SW1 0x61 or SW 0x9000
IsSuccess(v) == v.SW1 = 97 \/ SW(v) = 36864

\* func (r Rapdu) IsWarning() bool: SW1 0x62 or 0x63
IsWarning(v) == v.SW1 = 98 \/ v.SW1 = 99

\* a faulty IsError: one range from 0x64 to 0x6F
IsErrorNoGap(v) == v.SW1 >= 100 /\ v.SW1 <= 111

\* func (r Rapdu) IsError() bool: SW1 0x64, 0x65 or 0x67..0x6F
IsError(v) == (v.SW1 = 100 \/ v.SW1 = 101) \/ (v.SW1 >= 103 /\ v.SW1 <= 111)

(***************************************************************************)
(* The inputs of the calls.                                                *)
(***************************************************************************)
\* the bytes short inputs are made of
ByteSamples == {0, 1, 2, 255}

\* CLA, INS, P1, P2 of the inputs
Headers == {<<0, 164, 4, 0>>, <<128, 202, 255, 1>>}

\* the header of the long inputs
LongHeader == <<128, 202, 255, 1>>

\* the values within Margin of t
Near(t) == (t - Margin)..(t + Margin)

\* every sequence over S of length at most n
SeqsUpTo(S, n) == UNION {[1..k -> S] : k \in 0..n}

\* n bytes of a pattern that changes with the position
Fill(n) == [i \in 1..n |-> i % 251]

\* Ne is a Go int: the values around 0, 256 and 65536
NeValues ==
    Near(0) \cup Near(MaxLenResponseDataStandard) \cup Near(MaxLenResponseDataExtended)

\* the lengths of long Data: around 255 and 65535
LongLens == Near(MaxLenCommandDataStandard) \cup Near(MaxLenCommandDataExtended)

\* a Capdu with header h
WithHeader(h, data, ne) == Capdu(h[1], h[2], h[3], h[4], data, ne)

\* every short Data
SmallData == SeqsUpTo(ByteSamples, MaxSmallData)

\* buffers shorter than a header
TruncatedInputs == {SubSeq(h, 1, k) : h \in Headers, k \in 0..(LenHeader - 1)}

\* a header and every short body
ShortInputs == {h \o b : h \in Headers, b \in SeqsUpTo(ByteSamples, MaxBody)}

\* the tails that follow the data of a framed buffer
TailsExtended == {<<>>, <<0, 0>>, <<1, 1>>}

TailsStandard == {<<>>, <<0>>, <<2>>}

\* every value of a status byte
StatusBytes == 0..(ByteRange - 1)

\* SW1, SW2 of the Rapdus that carry data: 0x9000, 0x6110, 0x6300, 0x6A88,
\* 0x6600, 0x60FF
StatusSamples ==
    {<<144, 0>>, <<97, 16>>, <<99, 0>>, <<106, 136>>, <<102, 0>>, <<96, 255>>}

\* SW1, SW2 of the long Rapdus
LongStatus == <<144, 0>>

\* bytes that are no hex digits, next to the ranges of the digits: '/', ':',
\* '@', 'G', '`', 'g', and the space
BadChars == {47, 58, 64, 71, 96, 103, 32}

\* the buffers whose hex strings are damaged
HexBases ==
    TruncatedInputs \cup {h \o b : h \in Headers, b \in SeqsUpTo(ByteSamples, MaxSmallData)}

\* the buffers whose hex strings are inputs as they are
HexInputs ==
    TruncatedInputs \cup
    {h \o b : h \in Headers, b \in SeqsUpTo(ByteSamples, MaxSmallData + 2)}

\* the hex string of the buffer b, in lower or in upper case
HexOf(b, upper) == IF upper THEN ToUpper(EncodeToString(b)) ELSE EncodeToString(b)

\* the string t with the byte ch at position i
WithChar(t, i, ch) == BytesOf([t EXCEPT ![i] = ch])

\* the string t without its last byte
DropLast(t) == SubSeq(t, 1, Len(t) - 1)

\* how far the length field of a framed buffer is from the length of its data
LcSlack == (-1 - Margin)..(1 + Margin)

\* a long buffer in extended framing, its Lc field n + k
FramedExtended(h, n, k, t) == h \o <<0>> \o TwoBytes(n + k) \o Fill(n) \o t

\* a long buffer in standard framing, its Lc byte n + k
FramedStandard(h, n, k, t) == h \o <<ToByte(n + k)>> \o Fill(n) \o t

(***************************************************************************)
(* The caller.  pc: "built" (u was built), "received" (c was received),    *)
(* "encoded" (a serialiser returned c), "failed" (a serialiser returned an *)
(* error), "parsed" (ParseCapdu returned dec), "asked" (IsExtendedLength   *)
(* returned ext); for a Rapdu "rbuilt", "rreceived", "rencoded", "rfailed",*)
(* "rparsed" (ParseRapdu returned rdec), "rreencoded" (the parsed Rapdu    *)
(* was serialised again), "classified" (the three predicates returned cls).*)
(* After a call returned the caller may store a byte in a buffer it holds: *)
(* "written" / "rwritten" (in the buffer it had parsed), "owritten" /      *)
(* "rowritten" (in the slice a serialiser returned), "dwritten" /          *)
(* "rdwritten" (in the Data of the unit it had serialised).  A parsed      *)
(* Capdu may be serialised again ("reencoded", "refailed") and the bytes   *)
(* parsed again ("reparsed").                                              *)
(***************************************************************************)
NoBytes == [nil |-> TRUE, b |-> <<>>, err |-> NilErr]

NoCapdu == [capdu |-> ZeroCapdu, err |-> NilErr]

\* the caller builds the Capdu v by field assignment
Built(v) ==
    u = v /\ r = ZeroRapdu /\ c = <<>> /\ str = <<>> /\ origin = "none" /\ pc = "built"

\* the caller receives the buffer b from the transport
Received(b) ==
    /\ u = ZeroCapdu /\ r = ZeroRapdu /\ c = b /\ str = <<>>
    /\ origin = "caller" /\ pc = "received"

NoRapdu == [rapdu |-> ZeroRapdu, err |-> NilErr]

NoClass == [success |-> FALSE, warning |-> FALSE, error |-> FALSE]

\* the caller builds the Rapdu v by field assignment
RapduBuilt(v) ==
    /\ u = ZeroCapdu /\ r = v /\ c = <<>> /\ str = <<>>
    /\ origin = "none" /\ pc = "rbuilt"

\* the caller receives the response buffer b from the transport
RapduReceived(b) ==
    /\ u = ZeroCapdu /\ r = ZeroRapdu /\ c = b /\ str = <<>>
    /\ origin = "caller" /\ pc = "rreceived"

\* the caller holds the string t, to be parsed as a command ("hreceived") or
\* as a response ("rhreceived"); t is the hex string of the buffer b
\* (origin "hex") or a damaged string (origin "text")
StringReceived(b, t, o, p) ==
    /\ u = ZeroCapdu /\ r = ZeroRapdu /\ c = b /\ str = t
    /\ origin = o /\ pc = p

StringCalls == {"hreceived", "rhreceived"}

Init ==
    /\ enc = NoBytes
    /\ dec = NoCapdu
    /\ rdec = NoRapdu
    /\ cls = NoClass
    /\ ext = FALSE
    /\ \/ \E h \in Headers, d \in SmallData, ne \in NeValues :
              Built(WithHeader(h, d, ne))
       \/ \E n \in LongLens, ne \in NeValues :
              Built(WithHeader(LongHeader, Fill(n), ne))
       \/ \E b \in TruncatedInputs \cup ShortInputs : Received(b)
       \/ \E n \in LongLens, k \in LcSlack, t \in TailsExtended :
              Received(FramedExtended(LongHeader, n, k, t))
       \/ \E n \in Near(MaxLenCommandDataStandard), k \in LcSlack, t \in TailsStandard :
              Received(FramedStandard(LongHeader, n, k, t))
       \/ \E d \in SmallData \ {<<>>}, s \in StatusSamples :
              RapduBuilt(Rapdu(d, s[1], s[2]))
       \/ \E s1 \in StatusBytes, s2 \in StatusBytes : RapduBuilt(Rapdu(<<>>, s1, s2))
       \/ \E b \in TruncatedInputs \cup ShortInputs : RapduReceived(b)
       \/ \E n \in Near(MaxLenResponseDataExtended) :
              RapduBuilt(Rapdu(Fill(n), LongStatus[1], LongStatus[2]))
       \/ \E n \in Near(MaxLenRapdu) : RapduReceived(Fill(n))
       \/ \E b \in HexInputs, up \in BOOLEAN, p \in StringCalls :
              StringReceived(b, HexOf(b, up), "hex", p)
       \/ \E b \in HexBases, up \in BOOLEAN, p \in StringCalls :
              StringReceived(<<>>, DropLast(HexOf(b \o <<1>>, up)), "text", p)
       \/ \E b \in HexBases, up \in BOOLEAN, ch \in BadChars, p \in StringCalls :
              \E i \in 1..(2 * Len(b)) :
                  StringReceived(<<>>, WithChar(HexOf(b, up), i, ch), "text", p)
       \/ \E n \in Near(MaxLenCommandDataExtended), cut \in 0..2 :
              LET b == FramedExtended(LongHeader, n, 0, <<1, 1>>)
                  t == HexOf(b, TRUE)
              IN  \/ cut = 0 /\ StringReceived(b, t, "hex", "hreceived")
                  \/ cut = 1 /\ StringReceived(<<>>, DropLast(t), "text", "hreceived")
                  \/ cut = 2 /\ StringReceived(<<>>, WithChar(t, 9, 103), "text", "hreceived")
       \/ \E n \in Near(MaxLenRapdu), cut \in 0..2 :
              LET b == Fill(n)
                  t == HexOf(b, TRUE)
              IN  \/ cut = 0 /\ StringReceived(b, t, "hex", "rhreceived")
                  \/ cut = 1 /\ StringReceived(<<>>, DropLast(t), "text", "rhreceived")
                  \/ cut = 2 /\ StringReceived(<<>>, WithChar(t, 9, 103), "text", "rhreceived")

\* b, err := u.Bytes()
CallBytes ==
    /\ pc = "built"
    /\ enc' = Bytes(u)
    /\ c' = enc'.b
    /\ origin' = "Bytes"
    /\ pc' = IF enc'.err.nil THEN "encoded" ELSE "failed"
    /\ UNCHANGED <<u, dec, r, rdec, cls, ext, str>>

\* b, err := u.BytesExtended()
CallBytesExtended ==
    /\ pc = "built"
    /\ enc' = BytesExtended(u)
    /\ c' = enc'.b
    /\ origin' = "BytesExtended"
    /\ pc' = IF enc'.err.nil THEN "encoded" ELSE "failed"
    /\ UNCHANGED <<u, dec, r, rdec, cls, ext, str>>

\* v, err := ParseCapdu(c)
CallParseCapdu ==
    /\ pc \in {"encoded", "received"}
    /\ dec' = ParseCapdu(c)
    /\ pc' = "parsed"
    /\ UNCHANGED <<u, c, origin, enc, r, rdec, cls, ext, str>>

\* ext := u.IsExtendedLength(), asked after u.Bytes() returned
CallIsExtendedLength ==
    /\ pc \in {"encoded", "failed"}
    /\ origin = "Bytes"
    /\ ext' = IsExtendedLength(u)
    /\ pc' = "asked"
    /\ UNCHANGED <<u, c, origin, enc, dec, r, rdec, cls, str>>

\* b, err := r.Bytes()
CallRapduBytes ==
    /\ pc = "rbuilt"
    /\ enc' = RapduBytes(r)
    /\ c' = enc'.b
    /\ origin' = "Rapdu.Bytes"
    /\ pc' = IF enc'.err.nil THEN "rencoded" ELSE "rfailed"
    /\ UNCHANGED <<u, dec, r, rdec, cls, ext, str>>

\* v, err := ParseRapdu(c)
CallParseRapdu ==
    /\ pc \in {"rencoded", "rreceived"}
    /\ rdec' = ParseRapdu(c)
    /\ pc' = "rparsed"
    /\ UNCHANGED <<u, c, origin, enc, dec, r, cls, ext, str>>

\* v.Bytes() of the Rapdu v that ParseRapdu returned for a received buffer
CallRapduBytesOfParsed ==
    /\ pc = "rparsed"
    /\ origin = "caller"
    /\ rdec.err.nil
    /\ r' = rdec.rapdu
    /\ enc' = RapduBytes(rdec.rapdu)
    /\ pc' = IF enc'.err.nil THEN "rreencoded" ELSE "rfailed"
    /\ UNCHANGED <<u, c, origin, dec, rdec, cls, ext, str>>

\* r.IsSuccess(), r.IsWarning(), r.IsError()
CallClassify ==
    /\ pc = "rbuilt"
    /\ cls' = [success |-> IsSuccess(r), warning |-> IsWarning(r), error |-> IsError(r)]
    /\ pc' = "classified"
    /\ UNCHANGED <<u, c, origin, enc, dec, r, rdec, ext, str>>

\* v, err := ParseCapduHexString(str)
CallParseCapduHexString ==
    /\ pc = "hreceived"
    /\ dec' = ParseCapduHexString(str)
    /\ pc' = "hparsed"
    /\ UNCHANGED <<u, c, origin, enc, r, rdec, cls, ext, str>>

\* v, err := ParseRapduHexString(str)
CallParseRapduHexString ==
    /\ pc = "rhreceived"
    /\ rdec' = ParseRapduHexString(str)
    /\ pc' = "rhparsed"
    /\ UNCHANGED <<u, c, origin, enc, dec, r, cls, ext, str>>

\* the byte the caller stores in place of x
Flip(x) == (x + 1) % ByteRange

\* b with the byte at offset i replaced
Store(b, i) == [b EXCEPT ![i + 1] = Flip(b[i + 1])]

\* c[i] = x after ParseCapdu(c) returned: the Data of the returned Capdu is
\* the slice c[lo:hi] of the same storage and reads the stored byte
WriteParsedBuffer ==
    /\ pc = "parsed" /\ origin = "caller"
    /\ Len(c) <= MaxWritten
    /\ \E i \in 0..(Len(c) - 1) : c' = Store(c, i)
    /\ LET sl == ParseCapduDataSlice(c)
       IN  dec' = [dec EXCEPT !.capdu.Data = Slice(c', sl.lo, sl.hi)]
    /\ pc' = "written"
    /\ UNCHANGED <<u, origin, enc, r, rdec, cls, ext, str>>

\* c[i] = x after ParseRapdu(c) returned
WriteParsedRapduBuffer ==
    /\ pc = "rparsed" /\ origin = "caller"
    /\ Len(c) <= MaxWritten
    /\ \E i \in 0..(Len(c) - 1) : c' = Store(c, i)
    /\ LET sl == ParseRapduDataSlice(c)
       IN  rdec' = [rdec EXCEPT !.rapdu.Data = Slice(c', sl.lo, sl.hi)]
    /\ pc' = "rwritten"
    /\ UNCHANGED <<u, origin, enc, dec, r, cls, ext, str>>

\* b[i] = x in the slice b a serialiser returned: its storage was made by
\* the call (make, or a slice literal) and Data was copied into it
WriteReturnedBytes ==
    /\ Len(c) <= MaxWritten
    /\ \/ pc = "encoded" /\ u.Data # <<>> /\ pc' = "owritten"
       \/ pc = "rencoded" /\ r.Data # <<>> /\ pc' = "rowritten"
    /\ \E i \in 0..(Len(c) - 1) : c' = Store(c, i)
    /\ enc' = [enc EXCEPT !.b = c']
    /\ UNCHANGED <<u, origin, dec, r, rdec, cls, ext, str>>

\* u.Data[i] = x after a serialiser returned
WriteCapduData ==
    /\ pc = "encoded"
    /\ Len(u.Data) <= MaxWritten
    /\ \E i \in 0..(Len(u.Data) - 1) : u' = [u EXCEPT !.Data = Store(u.Data, i)]
    /\ pc' = "dwritten"
    /\ UNCHANGED <<c, origin, enc, dec, r, rdec, cls, ext, str>>

\* r.Data[i] = x after Rapdu.Bytes returned
WriteRapduData ==
    /\ pc = "rencoded"
    /\ Len(r.Data) <= MaxWritten
    /\ \E i \in 0..(Len(r.Data) - 1) : r' = [r EXCEPT !.Data = Store(r.Data, i)]
    /\ pc' = "rdwritten"
    /\ UNCHANGED <<u, c, origin, enc, dec, rdec, cls, ext, str>>

\* b, err := v.Bytes() of the Capdu v that ParseCapdu returned for a
\* received buffer
CallBytesOfParsed ==
    /\ pc = "parsed"
    /\ origin = "caller"
    /\ dec.err.nil
    /\ u' = dec.capdu
    /\ enc' = Bytes(dec.capdu)
    /\ pc' = IF enc'.err.nil THEN "reencoded" ELSE "refailed"
    /\ UNCHANGED <<c, origin, dec, r, rdec, cls, ext, str>>

\* v, err := ParseCapdu(b) of the bytes b that Bytes returned for a parsed
\* Capdu
CallParseCapduOfBytes ==
    /\ pc = "reencoded"
    /\ dec' = ParseCapdu(enc.b)
    /\ pc' = "reparsed"
    /\ UNCHANGED <<u, c, origin, enc, r, rdec, cls, ext, str>>

Next ==
    \/ CallBytesOfParsed
    \/ CallParseCapduOfBytes
    \/ WriteParsedBuffer
    \/ WriteParsedRapduBuffer
    \/ WriteReturnedBytes
    \/ WriteCapduData
    \/ WriteRapduData
    \/ CallParseCapduHexString
    \/ CallParseRapduHexString
    \/ CallBytes
    \/ CallBytesExtended
    \/ CallParseCapdu
    \/ CallIsExtendedLength
    \/ CallRapduBytes
    \/ CallParseRapdu
    \/ CallRapduBytesOfParsed
    \/ CallClassify

Spec == Init /\ [][Next]_vars

(***************************************************************************)
(* Properties.                                                             *)
(***************************************************************************)
\* a serialiser has returned
Serialised == pc \in {"encoded", "failed"} \/ (pc = "parsed" /\ origin # "caller")

\* the Capdu is within the ranges the serialisers accept, Ne not negative
ValidCapdu(v) == Len(v.Data) \in 0..65535 /\ v.Ne \in 0..65536

\* the last k bytes of b
LastBytes(b, k) == SubSeq(b, Len(b) - k + 1, Len(b))

\* C1: round trip through Bytes.  For every Capdu u with len(Data) in
\* [0, 65535] and Ne in [0, 65536], u.Bytes() returns no error, and
\* ParseCapdu of the returned bytes returns no error and a Capdu equal to u
\* field for field, in the standard and in the extended encoding.
C1_RoundTripBytes ==
    (origin = "Bytes" /\ ValidCapdu(u)) =>
        /\ Serialised => enc.err.nil
        /\ pc = "parsed" =>
              /\ dec.err.nil
              /\ dec.capdu.CLA = u.CLA /\ dec.capdu.INS = u.INS
              /\ dec.capdu.P1 = u.P1 /\ dec.capdu.P2 = u.P2
              /\ dec.capdu.Data = u.Data
              /\ dec.capdu.Ne = u.Ne

\* C1 witness: a Capdu with data and Ne = 65536 went through the extended
\* encoding and came back from ParseCapdu(u.Bytes()) unchanged.
C1_Witness ==
    /\ pc = "parsed" /\ origin = "Bytes"
    /\ Len(u.Data) = 2 /\ u.Ne = 65536
    /\ Len(c) = 4 + 3 + 2 + 2 /\ c[5] = 0
    /\ dec.err.nil /\ dec.capdu = u

\* C2: ParseCapdu returns an error for every input shorter than 4 or longer
\* than 65544 bytes, and the error of an input whose length is in
\* [4, 65544] is never the length error.
C2_ParseLengthCheck ==
    pc = "parsed" =>
        /\ (Len(c) < 4 \/ Len(c) > 65544) => ~dec.err.nil
        /\ Len(c) \in 4..65544 => dec.err.format # ErrInvalidLength(c).format

\* C2 witness: an input of 3 bytes was rejected.
C2_Witness == pc = "parsed" /\ Len(c) = 3 /\ ~dec.err.nil

\* C3: Bytes and BytesExtended return an error and a nil slice whenever
\* len(Data) > 65535 or Ne > 65536, and no error whenever len(Data) <= 65535
\* and 0 <= Ne <= 65536.
C3_SerialiseRange ==
    (Serialised /\ origin \in {"Bytes", "BytesExtended"}) =>
        /\ (Len(u.Data) > 65535 \/ u.Ne > 65536) => (~enc.err.nil /\ enc.nil)
        /\ (Len(u.Data) <= 65535 /\ u.Ne >= 0 /\ u.Ne <= 65536) => enc.err.nil

\* C3 witness: BytesExtended refused Ne = 65537 with data of legal length.
C3_Witness ==
    /\ pc = "failed" /\ origin = "BytesExtended"
    /\ u.Ne = 65537 /\ Len(u.Data) <= 65535
    /\ ~enc.err.nil /\ enc.nil

\* the bytes of the header of v
HeaderOf(v) == <<v.CLA, v.INS, v.P1, v.P2>>

\* C4: minimality of Bytes.  For every valid Capdu, Bytes returns the
\* extended encoding (byte 0x00 at offset 4, then 2-byte length fields) if
\* and only if len(Data) > 255 or Ne > 256; otherwise it returns the
\* standard encoding: the header alone (Case 1), header and Le (Case 2),
\* header, Lc and data (Case 3), or header, Lc, data and Le (Case 4), with a
\* 1-byte Lc = len(Data) and a 1-byte Le.
C4_Minimality ==
    (origin = "Bytes" /\ ValidCapdu(u) /\ pc \in {"encoded", "parsed"}) =>
        LET n == Len(u.Data)
            le == u.Ne % 256
            extended == n > 255 \/ u.Ne > 256
        IN  /\ extended =>
                /\ Len(c) = 5 + (IF n > 0 THEN 2 + n ELSE 0) + (IF u.Ne > 0 THEN 2 ELSE 0)
                /\ SubSeq(c, 1, 4) = HeaderOf(u)
                /\ c[5] = 0
                /\ n > 0 => (c[6] * 256 + c[7] = n /\ SubSeq(c, 8, 7 + n) = u.Data)
            /\ ~extended =>
                /\ n = 0 /\ u.Ne = 0 => c = HeaderOf(u)
                /\ n = 0 /\ u.Ne > 0 => c = HeaderOf(u) \o <<le>>
                /\ n > 0 /\ u.Ne = 0 => c = HeaderOf(u) \o <<n>> \o u.Data
                /\ n > 0 /\ u.Ne > 0 => c = HeaderOf(u) \o <<n>> \o u.Data \o <<le>>

\* C4 witness: Bytes returned the standard Case 4 encoding of a Capdu with
\* two data bytes and Ne = 256, the largest Ne of the standard form.
C4_Witness ==
    /\ pc = "encoded" /\ origin = "Bytes"
    /\ Len(u.Data) = 2 /\ u.Ne = 256
    /\ c = HeaderOf(u) \o <<2>> \o u.Data \o <<0>>

\* the serialiser used the extended form
ExtendedRegime ==
    origin = "BytesExtended" \/ (origin = "Bytes" /\ (Len(u.Data) > 255 \/ u.Ne > 256))

\* the parsed input has no Le field: Case 1 or Case 3
NoLeField(b, data) ==
    \/ Len(b) = 4
    \/ Len(b) >= 6 /\ b[5] # 0 /\ Len(b) = 5 + Len(data)
    \/ Len(b) >= 8 /\ b[5] = 0 /\ Len(b) = 7 + Len(data)

\* C5: Ne zero-mapping.  Bytes encodes Ne = 256 in the standard form as the
\* Le byte 0x00 and Ne = 65536 in the extended form as the Le bytes 0x00
\* 0x00; every other Ne in range is encoded as its own value (big endian in
\* the extended form).  ParseCapdu decodes an Le of 0 as Ne = 256 (standard
\* Case 2 and 4) or 65536 (extended Case 2 and 4): a parsed command with an
\* Le field never has Ne = 0.
C5_NeZeroMapping ==
    /\ (pc \in {"encoded", "parsed"} /\ origin # "caller" /\ ValidCapdu(u) /\ u.Ne > 0) =>
          IF ExtendedRegime
          THEN /\ u.Ne = 65536 => LastBytes(c, 2) = <<0, 0>>
               /\ u.Ne < 65536 => LastBytes(c, 2) = <<u.Ne \div 256, u.Ne % 256>>
          ELSE /\ u.Ne = 256 => LastBytes(c, 1) = <<0>>
               /\ u.Ne < 256 => LastBytes(c, 1) = <<u.Ne>>
    /\ (pc = "parsed" /\ dec.err.nil) =>
          /\ Len(c) = 5 /\ c[5] = 0 => dec.capdu.Ne = 256
          /\ Len(c) >= 6 /\ c[5] # 0 /\ Len(c) = 6 + c[5] /\ c[Len(c)] = 0 =>
                dec.capdu.Ne = 256
          /\ Len(c) = 7 /\ c[5] = 0 /\ c[6] = 0 /\ c[7] = 0 => dec.capdu.Ne = 65536
          /\ Len(c) >= 9 /\ c[5] = 0 /\ Len(c) = 9 + c[6] * 256 + c[7]
                /\ LastBytes(c, 2) = <<0, 0>> => dec.capdu.Ne = 65536
          /\ dec.capdu.Ne = 0 => NoLeField(c, dec.capdu.Data)

\* C5 witness: Bytes wrote Ne = 65536 after one data byte as 0x00 0x00 and
\* ParseCapdu read it back as 65536.
C5_Witness ==
    /\ pc = "parsed" /\ origin = "Bytes"
    /\ Len(u.Data) = 1 /\ u.Ne = 65536
    /\ LastBytes(c, 2) = <<0, 0>>
    /\ dec.err.nil /\ dec.capdu.Ne = 65536

\* ParseCapdu returned v and no error
ParsedAs(v) == dec.err.nil /\ dec.capdu = v

\* the Capdu made of the first four bytes of b, data and ne
Expect(b, data, ne) ==
    [CLA |-> b[1], INS |-> b[2], P1 |-> b[3], P2 |-> b[4], Data |-> data, Ne |-> ne]

\* C6: every 4-byte input parses as Case 1 (CLA, INS, P1, P2 from bytes
\* 0..3, empty Data, Ne = 0); every 5-byte input parses as standard Case 2
\* with empty Data and Ne = byte 4, where byte 4 = 0x00 gives Ne = 256.
C6_ParseCase1Case2 ==
    pc = "parsed" =>
        /\ Len(c) = 4 => ParsedAs(Expect(c, <<>>, 0))
        /\ Len(c) = 5 => ParsedAs(Expect(c, <<>>, IF c[5] = 0 THEN 256 ELSE c[5]))

\* C6 witness: the 5-byte input with byte 4 = 0x00 was parsed as Ne = 256.
C6_Witness ==
    /\ pc = "parsed" /\ Len(c) = 5 /\ c[5] = 0
    /\ dec.err.nil /\ dec.capdu.Ne = 256 /\ dec.capdu.Data = <<>>

\* C7: every 7-byte input whose byte at offset 4 is 0x00 parses as extended
\* Case 2: empty Data and Ne = the big-endian value of bytes 5..6, where the
\* value 0 gives Ne = 65536.
C7_ParseCase2Extended ==
    (pc = "parsed" /\ Len(c) = 7 /\ c[5] = 0) =>
        LET le == c[6] * 256 + c[7]
        IN  ParsedAs(Expect(c, <<>>, IF le = 0 THEN 65536 ELSE le))

\* C7 witness: the 7-byte input ending 00 01 02 was parsed as Ne = 258.
C7_Witness ==
    /\ pc = "parsed" /\ Len(c) = 7 /\ SubSeq(c, 5, 7) = <<0, 1, 2>>
    /\ dec.err.nil /\ dec.capdu.Ne = 258 /\ dec.capdu.Data = <<>>

\* C8: a 6-byte input whose byte at offset 4 is 0x00 parses only when the
\* byte at offset 5 is 0x00 too, giving empty Data and Ne = 256; for every
\* other byte at offset 5 ParseCapdu returns an error.  The variant applies
\* to no other input length.
C8_ParseHID ==
    pc = "parsed" =>
        /\ (Len(c) = 6 /\ c[5] = 0 /\ c[6] = 0) => ParsedAs(Expect(c, <<>>, 256))
        /\ (Len(c) = 6 /\ c[5] = 0 /\ c[6] # 0) => ~dec.err.nil
        /\ Len(c) # 6 => dec.err.format # "%s: invalid Le value %d in HID hack handler"

\* C8 witness: the 6-byte input ending 00 01 was rejected.
C8_Witness ==
    /\ pc = "parsed" /\ Len(c) = 6 /\ c[5] = 0 /\ c[6] = 1
    /\ ~dec.err.nil /\ dec.capdu = ZeroCapdu

\* C9: for an input of n >= 8 bytes whose byte at offset 4 is 0x00, with Lc
\* the big-endian value of bytes 5..6: Lc = n-7 gives extended Case 3 (Data =
\* bytes 7..n-1, Ne = 0); Lc = n-9 gives extended Case 4 (Data = bytes
\* 7..7+Lc-1, Ne = the big-endian value of the last 2 bytes, 0 giving 65536);
\* every other Lc gives an error.
C9_ParseExtended34 ==
    (pc = "parsed" /\ Len(c) >= 8 /\ c[5] = 0) =>
        LET n == Len(c)
            lc == c[6] * 256 + c[7]
            le == c[n - 1] * 256 + c[n]
        IN  /\ lc = n - 7 => ParsedAs(Expect(c, SubSeq(c, 8, n), 0))
            /\ lc = n - 9 =>
                  ParsedAs(Expect(c, SubSeq(c, 8, 7 + lc), IF le = 0 THEN 65536 ELSE le))
            /\ (lc # n - 7 /\ lc # n - 9) => ~dec.err.nil

\* C9 witness: a 10-byte input with Lc = 1 was parsed as extended Case 4 with
\* one data byte.
C9_Witness ==
    /\ pc = "parsed" /\ Len(c) = 10 /\ SubSeq(c, 5, 7) = <<0, 0, 1>>
    /\ dec.err.nil /\ dec.capdu.Data = <<c[8]>>
    /\ dec.capdu.Ne # 0

\* C10: for an input of n >= 6 bytes whose byte at offset 4 is non-zero, with
\* Lc that byte: Lc = n-5 gives standard Case 3 (Data = bytes 5..n-1, Ne =
\* 0); Lc = n-6 gives standard Case 4 (Data = bytes 5..5+Lc-1, Ne = the last
\* byte, 0 giving 256); every other Lc gives an error.
C10_ParseStandard34 ==
    (pc = "parsed" /\ Len(c) >= 6 /\ c[5] # 0) =>
        LET n == Len(c)
            lc == c[5]
            le == c[n]
        IN  /\ lc = n - 5 => ParsedAs(Expect(c, SubSeq(c, 6, n), 0))
            /\ lc = n - 6 =>
                  ParsedAs(Expect(c, SubSeq(c, 6, 5 + lc), IF le = 0 THEN 256 ELSE le))
            /\ (lc # n - 5 /\ lc # n - 6) => ~dec.err.nil

\* C10 witness: an 8-byte input with Lc = 2 and a last byte 0x00 was parsed as
\* standard Case 4 with two data bytes and Ne = 256.
C10_Witness ==
    /\ pc = "parsed" /\ Len(c) = 8 /\ c[5] = 2 /\ c[8] = 0
    /\ dec.err.nil /\ dec.capdu.Data = <<c[6], c[7]>>
    /\ dec.capdu.Ne = 256

\* BytesExtended has returned bytes for a valid Capdu
ExtendedEncoded ==
    origin = "BytesExtended" /\ ValidCapdu(u) /\ pc \in {"encoded", "parsed"}

\* C11 as claimed: BytesExtended always emits the 3-byte Lc field after the
\* header: for every valid Capdu, empty Data included, bytes 4..6 of the
\* output are 0x00 followed by the 2-byte big-endian value of len(Data).
C11_AlwaysLcField ==
    ExtendedEncoded =>
        SubSeq(c, 5, 7) = <<0, Len(u.Data) \div 256, Len(u.Data) % 256>>

\* C11 as amended: byte 4 of the output of BytesExtended is always 0x00; when
\* Data is not empty bytes 5..6 are the big-endian value of len(Data) and the
\* data follows; when Data is empty no Lc field is written: the output has 7
\* bytes and bytes 5..6 are the Le field, Ne big endian (0 and 65536 as 00 00).
C11_LcFieldWhenData ==
    ExtendedEncoded =>
        LET n == Len(u.Data)
        IN  /\ SubSeq(c, 1, 4) = HeaderOf(u)
            /\ c[5] = 0
            /\ n > 0 =>
                  /\ SubSeq(c, 6, 7) = <<n \div 256, n % 256>>
                  /\ SubSeq(c, 8, 7 + n) = u.Data
            /\ n = 0 =>
                  /\ Len(c) = 7
                  /\ SubSeq(c, 6, 7) = <<(u.Ne \div 256) % 256, u.Ne % 256>>

\* C11 witness: BytesExtended wrote a Capdu with empty Data and Ne = 1 as the
\* header and 00 00 01.
C11_Witness ==
    /\ pc = "encoded" /\ origin = "BytesExtended"
    /\ u.Data = <<>> /\ u.Ne = 1
    /\ c = HeaderOf(u) \o <<0, 0, 1>>

\* C12: for a Capdu with empty Data and Ne = 0, BytesExtended does not omit
\* the Le field: it returns the 7 bytes header, 00, 00, 00 (the extended Case
\* 2 encoding of Ne = 65536), and ParseCapdu of them yields Ne = 65536.
C12_AllEmptyExtended ==
    (ExtendedEncoded /\ u.Data = <<>> /\ u.Ne = 0) =>
        /\ c = HeaderOf(u) \o <<0, 0, 0>>
        /\ pc = "parsed" =>
              /\ dec.err.nil
              /\ dec.capdu.Data = <<>>
              /\ dec.capdu.Ne = 65536

\* C12 witness: the all-empty Capdu went through BytesExtended and ParseCapdu
\* and came back with Ne = 65536.
C12_Witness ==
    /\ pc = "parsed" /\ origin = "BytesExtended"
    /\ u.Data = <<>> /\ u.Ne = 0
    /\ Len(c) = 7
    /\ dec.err.nil /\ dec.capdu.Ne = 65536

\* ParseCapdu returned the Capdu v, field for field
SameFields(v) ==
    /\ dec.err.nil
    /\ dec.capdu.CLA = v.CLA /\ dec.capdu.INS = v.INS
    /\ dec.capdu.P1 = v.P1 /\ dec.capdu.P2 = v.P2
    /\ dec.capdu.Data = v.Data
    /\ dec.capdu.Ne = v.Ne

\* C13 as claimed: for every Capdu u with len(Data) in [0, 65535] and Ne in
\* [0, 65536], ParseCapdu(u.BytesExtended()) succeeds and reproduces u field
\* for field.
C13_RoundTripExtendedAll ==
    (origin = "BytesExtended" /\ ValidCapdu(u)) =>
        /\ Serialised => enc.err.nil
        /\ pc = "parsed" => SameFields(u)

\* C13 as amended: for every such u except the one with empty Data and Ne =
\* 0, ParseCapdu(u.BytesExtended()) succeeds and reproduces u field for
\* field; for empty Data and Ne = 0 it succeeds and reproduces u with Ne =
\* 65536 in the place of 0.
C13_RoundTripExtended ==
    (origin = "BytesExtended" /\ ValidCapdu(u)) =>
        /\ Serialised => enc.err.nil
        /\ pc = "parsed" =>
              IF u.Data = <<>> /\ u.Ne = 0
              THEN SameFields([u EXCEPT !.Ne = 65536])
              ELSE SameFields(u)

\* C13 witness: a Capdu of one data byte and Ne = 1, which Bytes would write
\* in the standard form, came back from ParseCapdu(u.BytesExtended())
\* unchanged.
C13_Witness ==
    /\ pc = "parsed" /\ origin = "BytesExtended"
    /\ Len(u.Data) = 1 /\ u.Ne = 1
    /\ Len(c) = 4 + 3 + 1 + 2
    /\ dec.err.nil /\ dec.capdu = u

\* C14: ParseRapdu returns an error exactly when the length of its input is
\* outside [2, 65538] (lengths 1 and 65539 are refused); for an input of
\* length n in [2, 65538] it returns no error, SW1 = byte n-2, SW2 = byte
\* n-1 and Data = the first n-2 bytes (empty when n = 2), whatever the
\* status bytes are.
C14_ParseRapdu ==
    pc \in {"rparsed", "rreencoded"} =>
        LET n == Len(c)
        IN  /\ (~rdec.err.nil) <=> (n < 2 \/ n > 65538)
            /\ n \in {1, 65539} => ~rdec.err.nil
            /\ n \in 2..65538 =>
                /\ rdec.rapdu.SW1 = c[n - 1]
                /\ rdec.rapdu.SW2 = c[n]
                /\ rdec.rapdu.Data = SubSeq(c, 1, n - 2)
                /\ Len(rdec.rapdu.Data) = n - 2

\* C14 witness: ParseRapdu returned one data byte and the two status bytes
\* of a received 3-byte buffer.
C14_Witness ==
    /\ pc = "rparsed" /\ origin = "caller"
    /\ c = <<0, 164, 4>>
    /\ rdec.err.nil /\ rdec.rapdu = [Data |-> <<0>>, SW1 |-> 164, SW2 |-> 4]

\* Rapdu.Bytes has returned for the receiver r
RapduSerialised ==
    \/ pc \in {"rencoded", "rfailed", "rreencoded"}
    \/ pc = "rparsed" /\ origin = "Rapdu.Bytes"

\* C15: Rapdu.Bytes returns an error, and a nil slice, exactly when
\* len(Data) > 65536; otherwise it returns Data followed by SW1 then SW2, a
\* slice of len(Data) + 2 bytes.
C15_RapduBytes ==
    RapduSerialised =>
        /\ (~enc.err.nil) <=> Len(r.Data) > 65536
        /\ (~enc.err.nil) => enc.nil
        /\ enc.err.nil =>
            /\ ~enc.nil
            /\ enc.b = r.Data \o <<r.SW1, r.SW2>>
            /\ Len(enc.b) = Len(r.Data) + 2

\* C15 witness: Bytes returned the two data bytes and the status word 0x9000
\* of a Rapdu.
C15_Witness ==
    /\ pc = "rencoded" /\ origin = "Rapdu.Bytes"
    /\ r = [Data |-> <<1, 2>>, SW1 |-> 144, SW2 |-> 0]
    /\ enc.err.nil /\ enc.b = <<1, 2, 144, 0>>

\* C16: response round trip.  Every Rapdu r with len(Data) <= 65536 is
\* serialised by Bytes without error and ParseRapdu of the bytes returns r;
\* every buffer of length in [2, 65538] is parsed by ParseRapdu without
\* error and Bytes of the parsed Rapdu returns the buffer.
C16_RoundTripRapdu ==
    /\ (pc = "rfailed" /\ origin = "Rapdu.Bytes") => Len(r.Data) > 65536
    /\ (pc = "rparsed" /\ origin = "Rapdu.Bytes") => (rdec.err.nil /\ rdec.rapdu = r)
    /\ (pc = "rparsed" /\ origin = "caller" /\ Len(c) \in 2..65538) => rdec.err.nil
    /\ (pc = "rfailed" /\ origin = "caller") => FALSE
    /\ pc = "rreencoded" => (enc.err.nil /\ ~enc.nil /\ enc.b = c)

\* C16 witness: a received 3-byte buffer was parsed and the parsed Rapdu
\* serialised to the same three bytes.
C16_Witness ==
    /\ pc = "rreencoded" /\ origin = "caller"
    /\ c = <<0, 164, 4>>
    /\ r = [Data |-> <<0>>, SW1 |-> 164, SW2 |-> 4]
    /\ enc.b = c

\* C17: status classification.  For every SW1, SW2 and Data: IsSuccess is
\* true iff SW1 = 0x61 or the status word is 0x9000; IsWarning is true iff
\* SW1 is 0x62 or 0x63; IsError is true iff SW1 is 0x64, 0x65 or within
\* 0x67..0x6F.  At most one of the three is true (0x9000 is success only,
\* 0x6A88 error only, 0x6300 warning only), and the results depend on SW1
\* and SW2 alone, not on Data.
C17_Classification ==
    pc = "classified" =>
        LET only(k) == [success |-> k = 1, warning |-> k = 2, error |-> k = 3]
        IN  /\ cls.success <=> (r.SW1 = 97 \/ (r.SW1 = 144 /\ r.SW2 = 0))
            /\ cls.warning <=> r.SW1 \in {98, 99}
            /\ cls.error <=> r.SW1 \in ({100, 101} \cup (103..111))
            /\ cls \in {only(0), only(1), only(2), only(3)}
            /\ (r.SW1 = 144 /\ r.SW2 = 0) => cls = only(1)
            /\ (r.SW1 = 106 /\ r.SW2 = 136) => cls = only(3)
            /\ (r.SW1 = 99 /\ r.SW2 = 0) => cls = only(2)

\* C17 witness: a Rapdu with data and the status word 0x9000 was classified
\* as success only.
C17_Witness ==
    /\ pc = "classified"
    /\ r.Data # <<>> /\ r.SW1 = 144 /\ r.SW2 = 0
    /\ cls = [success |-> TRUE, warning |-> FALSE, error |-> FALSE]

\* C18: classification gap.  For every Rapdu with SW1 = 0x60 or SW1 = 0x66,
\* whatever SW2 and Data are, IsSuccess, IsWarning and IsError all return
\* false.
C18_ClassificationGap ==
    (pc = "classified" /\ r.SW1 \in {96, 102}) =>
        (~cls.success /\ ~cls.warning /\ ~cls.error)

\* C18 witness: a Rapdu with data and the status word 0x6600 was classified
\* and none of the three predicates returned true.
C18_Witness ==
    /\ pc = "classified"
    /\ r.Data # <<>> /\ r.SW1 = 102 /\ r.SW2 = 0
    /\ ~cls.success /\ ~cls.warning /\ ~cls.error

\* the bytes Bytes returned are in the extended form: at least 7 bytes, the
\* byte at offset 4 is 0x00
ProducedExtended == Len(c) >= 7 /\ c[5] = 0

C20_DocumentedExtendedLength ==
    pc = "asked" => (ext <=> (Len(u.Data) > 65535 \/ u.Ne > 65536))

\* the bytes '0'..'9', 'A'..'F', 'a'..'f'
HexChars == (48..57) \cup (65..70) \cup (97..102)

\* the string t holds a byte that is no hex digit
HasNonHex(t) == LET src == BytesOf(t) IN \E i \in 1..Len(src) : src[i] \notin HexChars

\* the error e is the decode error of the hex package, wrapped
IsDecodeError(e) ==
    /\ ~e.nil
    /\ e.format = "%w: %s: hex conversion error"
    /\ e.args[1].format = "encoding/hex: invalid byte: %#U"

\* e was returned by the check of the parity of the length
IsUnevenError(e) == ~e.nil /\ e.format = "%s: uneven number of hex characters"

\* e was returned by the check of the length of the string
IsHexLengthError(e) ==
    /\ ~e.nil
    /\ e.format \in
         {"%s: invalid length of hex string - a Capdu must consist of at least 4 byte and maximum of 65544 byte, got %d",
          "%s: invalid length of hex string - a RAPDU must consist of at least 2 byte and maximum of 65538 byte, got %d"}

\* the verdict of a hex-string adapter on the string str, whose limits are
\* lo and hi: err is the error returned, same tells that the whole result
\* is the result of the byte parser on the bytes c that str is the hex
\* string of
HexAdapterContract(lo, hi, err, same) ==
    LET n == Len(str)
        odd == n % 2 = 1
        outside == n < lo \/ n > hi
    IN  /\ odd => IsUnevenError(err)
        /\ (~odd /\ outside) => IsHexLengthError(err)
        /\ (~odd /\ ~outside /\ HasNonHex(str)) => IsDecodeError(err)
        /\ (~odd /\ ~outside /\ ~HasNonHex(str)) => (origin = "hex" /\ same)

\* C21: the hex-string adapters validate before they decode.
\* ParseCapduHexString fails for every string of odd length and for every
\* string of fewer than 8 or more than 131088 characters, and
\* ParseRapduHexString for every string of odd length and for every string
\* of fewer than 4 or more than 131076 characters, whatever the characters
\* are; a string within the limits that holds a non-hex character fails
\* with the decode error; for every other string, in upper or lower case,
\* the result is that of ParseCapdu / ParseRapdu on the decoded bytes.
C21_HexAdapters ==
    /\ pc = "hparsed" => HexAdapterContract(8, 131088, dec.err, dec = ParseCapdu(c))
    /\ pc = "rhparsed" => HexAdapterContract(4, 131076, rdec.err, rdec = ParseRapdu(c))

\* C21 witness: ParseCapduHexString returned the Case 2 command with
\* Ne = 255 for the lower-case string "80caff01ff".
C21_Witness ==
    /\ pc = "hparsed"
    /\ str = <<56, 48, 99, 97, 102, 102, 48, 49, 102, 102>>
    /\ dec.err.nil
    /\ dec.capdu = [CLA |-> 128, INS |-> 202, P1 |-> 255, P2 |-> 1, Data |-> <<>>, Ne |-> 255]

\* the errors of ParseCapdu carry the value they complain about
ParseErrorContext ==
    (pc = "parsed" /\ ~dec.err.nil) =>
        /\ Len(dec.err.args) = 2
        /\ dec.err.format = "%s: invalid length - Capdu must consist of at least 4 byte and maximum of 65544 byte, got %d"
               => dec.err.args[2] = Len(c)
        /\ dec.err.format = "%s: invalid Lc value - Lc indicates data length %d"
               => dec.err.args[2] = c[6] * 256 + c[7]
        /\ dec.err.format = "%s: invalid Lc value - Lc indicates length %d"
               => dec.err.args[2] = c[5]
        /\ dec.err.format = "%s: invalid Le value %d in HID hack handler"
               => dec.err.args[2] = c[6]

\* the range errors of the serialisers carry the value they complain about
SerialiseErrorContext ==
    (Serialised /\ ~enc.err.nil) =>
        /\ Len(u.Data) > 65535 =>
               /\ enc.err.format = "%s: len of Capdu.Data %d exceeds maximum allowed length of %d"
               /\ enc.err.args[2] = Len(u.Data)
        /\ (Len(u.Data) <= 65535 /\ u.Ne > 65536) =>
               /\ enc.err.format = "%s: ne %d exceeds maximum allowed length of %d"
               /\ enc.err.args[2] = u.Ne

\* C22: error context.  Every error of the command codec carries the
\* offending value: the length error of ParseCapdu the length of the input,
\* the Lc errors the decoded Lc, the HID error the Le byte, the data-length
\* error of Bytes / BytesExtended len(Data), and their error for
\* Ne > 65536 the value of Ne.
C22_ErrorContext == ParseErrorContext /\ SerialiseErrorContext

\* C23: buffer ownership.  Each codec call only reads its input and hands
\* back storage of its own: a byte the caller stores in the buffer it gave
\* to ParseCapdu or ParseRapdu leaves the Data of the returned unit as it
\* was; a byte stored in the slice that Bytes / BytesExtended returned
\* leaves the Data of the unit as it was, and a byte stored in that Data
\* leaves the returned slice as it was.
C23_BufferOwnership ==
    [][/\ WriteParsedBuffer => dec'.capdu.Data = dec.capdu.Data
       /\ WriteParsedRapduBuffer => rdec'.rapdu.Data = rdec.rapdu.Data
       /\ WriteReturnedBytes => (u'.Data = u.Data /\ r'.Data = r.Data)
       /\ WriteCapduData => (c' = c /\ enc'.b = enc.b)
       /\ WriteRapduData => (c' = c /\ enc'.b = enc.b)]_vars

\* C24: ParseCapdu is total and memory-safe.  For every input, of every
\* length and content, every index and slice bound it evaluates (c[4],
\* c[5], c[5:7], c[7:7+Lc], c[5:5+Lc], c[len-2:], c[len-1]) lies within the
\* input, so the call ends with a Capdu or with an error and never with an
\* out-of-range access.
C24_ParseMemorySafe ==
    /\ pc \in {"parsed", "hparsed"} => dec # ParsePanic
    /\ pc = "parsed" =>
           \A a \in ParseCapduAccesses(c) : 0 <= a.lo /\ a.lo <= a.hi /\ a.hi <= Len(c)
    /\ (pc = "parsed" /\ dec.err.nil /\ Len(c) >= 8 /\ c[5] = 0) =>
           LET lc == c[6] * 256 + c[7]
           IN  7 + lc = Len(c) \/ 7 + lc = Len(c) - 2
    /\ (pc = "parsed" /\ dec.err.nil /\ Len(c) >= 6 /\ c[5] # 0) =>
           (5 + c[5] = Len(c) \/ 5 + c[5] = Len(c) - 1)

\* C24 witness: ParseCapdu returned the extended Case 4 command of a
\* 10-byte input after reading c[4], c[5:7], c[7:8] and c[8:10].
C24_Witness ==
    /\ pc = "parsed"
    /\ c = <<0, 164, 4, 0, 0, 0, 1, 255, 0, 2>>
    /\ dec.err.nil /\ dec.capdu.Data = <<255>> /\ dec.capdu.Ne = 2
    /\ {Index(4), Access(5, 7), Access(7, 8), Access(8, 10)} \subseteq ParseCapduAccesses(c)

\* the buffer b is in the standard form: it has no 00 byte after the header
StandardForm(b) == Len(b) <= 5 \/ b[5] # 0

\* C25: every Capdu that ParseCapdu returns without error has
\* len(Data) <= 65535 and 0 <= Ne <= 65536 (Ne <= 256 and len(Data) <= 255
\* for an input in the standard form), so Bytes never fails on a parsed
\* command; and parsing is stable under re-encoding:
\* ParseCapdu(ParseCapdu(b).Bytes()) = ParseCapdu(b) for every b that
\* parses, the HID request and extended encodings of small lengths
\* included.
C25_ParsedIsValid ==
    /\ (pc = "parsed" /\ origin = "caller" /\ dec.err.nil) =>
           /\ Len(dec.capdu.Data) <= 65535
           /\ dec.capdu.Ne \in 0..65536
           /\ StandardForm(c) => (dec.capdu.Ne <= 256 /\ Len(dec.capdu.Data) <= 255)
    /\ pc # "refailed"
    /\ pc \in {"reencoded", "reparsed"} => (enc.err.nil /\ ~enc.nil)
    /\ pc = "reparsed" => (dec.err.nil /\ dec.capdu = u /\ dec = ParseCapdu(c))

\* C25 witness: the 6-byte HID request was parsed as Ne = 256, serialised
\* as the 5-byte standard Case 2 command and parsed to the same Capdu.
C25_Witness ==
    /\ pc = "reparsed"
    /\ c = <<0, 164, 4, 0, 0, 0>>
    /\ enc.b = <<0, 164, 4, 0, 0>>
    /\ dec.err.nil /\ dec.capdu = u /\ u.Ne = 256 /\ u.Data = <<>>

\* C26: the output of the serialisers is always a well-formed command.
\* Whenever Bytes or BytesExtended returns without error, for any Data and
\* any Ne the call accepts (a negative Ne is not refused by the range
\* check), the returned bytes have a length in [4, 65544] and ParseCapdu
\* accepts them.
C26_WellFormedOutput ==
    /\ (pc = "encoded" /\ origin \in {"Bytes", "BytesExtended"}) => Len(c) \in 4..65544
    /\ (pc = "parsed" /\ origin \in {"Bytes", "BytesExtended"}) => dec.err.nil

====
